---- MODULE Spec2Model ----
(***************************************************************************)
(* dt-device-loader: the worker of code_loader.py (CodeLoader.start,       *)
(* _load_configuration, _run and the _docker_* helpers), its 4-level       *)
(* progress tree, the percentage roll-up of _get_progress and the status   *)
(* projection of get_status.                                               *)
(*                                                                         *)
(* The worker is one sequential process.  Every assignment to the progress *)
(* tree (tick, total, action, output) is a state of its own: a control     *)
(* step of the worker puts the writes of the straight-line code it runs on *)
(* the queue wq, in program order, and Write performs them one at a time.  *)
(* A control step is enabled only when wq is empty.                        *)
(*                                                                         *)
(* Spec is the worker alone.  SysSpec adds the REST thread of rest_api.py, *)
(* the get_status calls of the readers and the shutdown callbacks.         *)
(* TreeSpec runs _set_action, _set_tick and _get_progress on trees of any  *)
(* shape.                                                                  *)
(***************************************************************************)
EXTENDS Integers, Sequences, FiniteSets, TLC

\* ------------------------------------------------------------------ bounds
\* at most MaxFiles staged files (archives and manifests together)
MaxFiles == 3
\* at most MaxLines progress lines are read from one `docker pull`
MaxLines == 2
\* at most MaxSysFiles staged files in the runs with the status readers
MaxSysFiles == 1
\* ticks and totals of 0 .. MaxTick where the tree functions are run on
\* trees of every shape
MaxTick == 2

\* ------------------------------------------------------- program constants
RECHECK_PERIOD_ON_ERROR_SEC == 10
RECHECK_PERIOD_SEC == 60
max_level == 4
\* `buffer` of _docker_load_archive, in the model's size unit (4 MiB)
buffer == 2

Levels == 0 .. (max_level - 1)

\* ------------------------------------------------------------- the files
\* A staged file is <<kind, i>>.
TarFile(i) == <<"tar", i>>
TarGzFile(i) == <<"targz", i>>
RunFile(i) == <<"run", i>>
LoadFile(i) == <<"load", i>>
NoItem == <<"", 0>>

\* os.stat(archive_file).st_size, in units of 4 MiB: the .tar archives are
\* 1, 3, 5 .. units long, the .tar.gz archives 0, 2, 4 .. (the first empty)
st_size(f) == IF f[1] = "tar" THEN 2 * f[2] - 1 ELSE 2 * (f[2] - 1)

\* The `image:` entries of the services of a manifest, in file order.
\* Manifests 1, 4, .. of the run directory name two different images,
\* manifests 2, 5, .. the same image twice, manifests 3, 6, .. none;
\* the load directory holds the same three shapes shifted by one.
ServiceImages(f) ==
    LET k == IF f[1] = "run" THEN f[2] % 3 ELSE (f[2] + 1) % 3
    IN  IF k = 1 THEN << <<"img", 1>>, <<"img", 2>> >>
        ELSE IF k = 2 THEN << <<"img", 1>>, <<"img", 1>> >>
        ELSE << >>

\* _images_in_stack: list(set(images))
_images_in_stack(f) == { ServiceImages(f)[i] : i \in DOMAIN ServiceImages(f) }

\* A stack name is [base, upper]: the file's basename without .yaml / .yml,
\* and whether it holds upper-case letters.  Even-numbered manifests have
\* upper-case names.
stack_name(f) == [base |-> f[2], upper |-> (f[2] % 2 = 0)]
\* the name compared as it is, without lower()
lower_skipped(n) == n
\* str.lower
lower(n) == [n EXCEPT !.upper = FALSE]
\* self.exclude_run: os.environ['EXCLUDE_RUN'].lower().split(','); the
\* environment names every even-numbered stack
InExcludeRun(n) == n.upper = FALSE /\ n.base % 2 = 0

\* glob(): the files of one kind, as a list (by number)
RECURSIVE SortedList(_)
SortedList(S) ==
    IF S = {} THEN << >>
    ELSE LET m == CHOOSE x \in S : \A y \in S : x[2] <= y[2]
         IN  <<m>> \o SortedList(S \ {m})
glob(files, kind) == SortedList({f \in files : f[1] = kind})

\* ------------------------------------------------------------ the values
None == [text |-> "None", item |-> NoItem]
Action(text, item) == [text |-> text, item |-> item]
\* 'ERROR: %s' % e
ErrorAction(e) == [text |-> "ERROR", item |-> <<e, 0>>]
IsErrorAction(a) == a.text = "ERROR"

\* output blobs: None, '' , and the text a collaborator printed
OutNone == "None"
OutEmpty == ""

VARIABLES
    \* the progress tree and the flags of CodeLoader
    total, tick, action, output, busy, error,
    \* RunConfiguration
    images_to_load_tar, images_to_load_tar_gz, stacks_to_load_yaml,
    stacks_to_run_yaml, do_delete,
    \* DTProcess.is_shutdown and its shutdown callbacks, the observers, the
    \* get_status call in hand
    is_shutdown, callbacks, printer_is_shutdown, rest_api, snap,
    \* the worker: position, pending tree writes, locals
    pc, wq, recheck_period, phase, idx, todo, image, bytes_transferred,
    layers, nlines, exc,
    \* the environment: the staged files
    fs,
    \* history: what happened in this run
    h

vars == << total, tick, action, output, busy, error,
           images_to_load_tar, images_to_load_tar_gz, stacks_to_load_yaml,
           stacks_to_run_yaml, do_delete,
           is_shutdown, callbacks, printer_is_shutdown, rest_api, snap,
           pc, wq, recheck_period, phase, idx, todo, image, bytes_transferred,
           layers, nlines, exc, fs, h >>

tree == << total, tick, action, output >>
config == << images_to_load_tar, images_to_load_tar_gz, stacks_to_load_yaml,
             stacks_to_run_yaml, do_delete >>
observers == << callbacks, printer_is_shutdown, rest_api, snap >>
locals == << phase, idx, todo, image, bytes_transferred, layers, nlines >>

\* ------------------------------------------------------- progress roll-up
Min(a, b) == IF a <= b THEN a ELSE b

\* the share that is left instead of the share that is done
percentage_left(partial, tot) ==
    LET t == IF tot = 0 THEN 1 ELSE tot
        p == Min(partial, t)
    IN  ((t - p) * 100) \div t

\* percentage(partial, total): int((partial / total) * 100.0)
percentage(partial, tot) ==
    LET t == IF tot = 0 THEN 1 ELSE tot
        p == Min(partial, t)
    IN  (p * 100) \div t

\* _get_progress: progress[lvl], computed from the deepest level upward
RECURSIVE ProgressAt(_, _, _)
ProgressAt(tk, tt, lvl) ==
    LET progress_base == percentage(tk[lvl], tt[lvl])
        substep_progress ==
            IF (lvl + 1) < max_level /\ tt[lvl] > 0
            THEN ProgressAt(tk, tt, lvl + 1) \div tt[lvl]
            ELSE 0
    IN  progress_base + substep_progress

_get_progress == [lvl \in Levels |-> ProgressAt(tick, total, lvl)]

\* get_status()['status']
status == IF error THEN "error" ELSE IF busy THEN "busy" ELSE "ready"

\* ------------------------------------------------- writes to the tree
_set_total(level, t) == << [f |-> "total", l |-> level, n |-> t] >>
_set_tick(level, t) == << [f |-> "tick", l |-> level, n |-> t] >>
_tick(level) == << [f |-> "inc", l |-> level] >>
SetOutput(level, o) == << [f |-> "output", l |-> level, o |-> o] >>
SetActionField(level, a) == << [f |-> "action", l |-> level, a |-> a] >>

\* for lvl in range(first, max_level): action[lvl] = None; tick[lvl] = 0
RECURSIVE ClearFrom(_)
ClearFrom(lvl) ==
    IF lvl >= max_level THEN << >>
    ELSE SetActionField(lvl, None) \o _set_tick(lvl, 0) \o ClearFrom(lvl + 1)

\* the action written before the loop that clears the levels below
_set_action_action_first(action_lvl, a) ==
    SetActionField(action_lvl, a) \o ClearFrom(action_lvl + 1)

\* the loop of _set_action begun at action_lvl itself
_set_action_from_own_level(action_lvl, a) ==
    ClearFrom(action_lvl) \o SetActionField(action_lvl, a)

\* _set_action: for lvl in range(action_lvl+1, max_level): action[lvl] = None;
\* tick[lvl] = 0;  then action[action_lvl] = action
_set_action(action_lvl, a) ==
    ClearFrom(action_lvl + 1) \o SetActionField(action_lvl, a)

\* _set_status(level, action, tick=0)
_set_status(level, a) ==
    _set_tick(level, 0) \o _set_action(level, a) \o SetOutput(level, OutNone)

\* for lvl in range(max_level): _set_action(lvl, 'ERROR: %s' % e); error = True
RECURSIVE ErrorWrites(_, _)
ErrorWrites(lvl, e) ==
    IF lvl >= max_level THEN << >>
    ELSE _set_action(lvl, ErrorAction(e)) \o << [f |-> "error", l |-> lvl] >>
         \o ErrorWrites(lvl + 1, e)

\* ------------------------------------------------------------------ Init
ENABLE_PRINTER == FALSE
ENABLE_REST_API == TRUE
\* rest_api.py
INCLUDE_OUTPUT == FALSE

\* the get_status call in hand: pc, where the caller is; who, the caller;
\* progress, the list _get_progress returned; status and lv, the entries of
\* the dict built so far (lv[lvl + 1] is the entry of level lvl)
NoSnapshot ==
    [pc |-> "idle", who |-> "none", progress |-> << >>, status |-> "none",
     lv |-> << >>]

FirstFiles(nt, ng, nr, nl) ==
    {TarFile(i) : i \in 1 .. nt} \cup {TarGzFile(i) : i \in 1 .. ng}
    \cup {RunFile(i) : i \in 1 .. nr} \cup {LoadFile(i) : i \in 1 .. nl}

\* the staged files the device may boot with
Staged ==
    { FirstFiles(c[1], c[2], c[3], c[4]) :
        c \in { d \in (0 .. MaxFiles) \X (0 .. MaxFiles) \X (0 .. MaxFiles)
                      \X (0 .. MaxFiles) :
                d[1] + d[2] + d[3] + d[4] <= MaxFiles } }

\* a collaborator call: docker load of an archive ("load"), docker images
\* ("exists") or docker pull ("pull") of an image of a manifest,
\* docker-compose up of a manifest ("up")
Call(kind, file, img) == [kind |-> kind, file |-> file, image |-> img]
NoCall == Call("none", NoItem, NoItem)

\* the history of one cycle: failure, a collaborator call failed or returned
\* failure; fault, what raised the exception that ended the cycle; units, the
\* archives loaded and images processed; itemOK, the item in hand was
\* processed completely and without failure; call, the last collaborator
\* call that was started; inflight, the calls started and not yet returned;
\* for the manifest in hand: checked, the images docker images was asked
\* for; missing, those it did not find; pulled, the images pulled; ups, the
\* calls of docker-compose up that returned
NewCycle(hist) ==
    [hist EXCEPT !.failure = FALSE, !.fault = "none", !.units = 0,
                 !.itemOK = FALSE, !.call = NoCall, !.inflight = 0,
                 !.checked = {}, !.missing = {}, !.pulled = {}, !.ups = 0]

Init ==
    /\ total = [l \in Levels |-> 1]
    /\ tick = [l \in Levels |-> 0]
    /\ action = [l \in Levels |-> None]
    /\ output = [l \in Levels |-> OutNone]
    /\ busy = TRUE
    /\ error = FALSE
    /\ images_to_load_tar = << >>
    /\ images_to_load_tar_gz = << >>
    /\ stacks_to_load_yaml = << >>
    /\ stacks_to_run_yaml = << >>
    /\ do_delete \in BOOLEAN
    /\ is_shutdown = FALSE
    /\ callbacks = "none"
    /\ printer_is_shutdown = FALSE
    /\ rest_api = "new"
    /\ snap = NoSnapshot
    /\ pc = "start"
    /\ wq = << >>
    /\ recheck_period = 0
    /\ phase = 0
    /\ idx = 0
    /\ todo = {}
    /\ image = NoItem
    /\ bytes_transferred = 0
    /\ layers = {}
    /\ nlines = 0
    /\ exc = "none"
    /\ fs \in Staged
    /\ h = [failure |-> FALSE, fault |-> "none", units |-> 0,
            itemOK |-> FALSE, call |-> NoCall, inflight |-> 0,
            checked |-> {}, missing |-> {}, pulled |-> {}, ups |-> 0]

\* ------------------------------------------------- the tree writes, one by one
\* the tree t after the write w
WriteTree(t, w) ==
    [tick |-> IF w.f = "tick" THEN [t.tick EXCEPT ![w.l] = w.n]
              ELSE IF w.f = "inc" THEN [t.tick EXCEPT ![w.l] = @ + 1]
              ELSE t.tick,
     total |-> IF w.f = "total" THEN [t.total EXCEPT ![w.l] = w.n]
               ELSE t.total,
     action |-> IF w.f = "action" THEN [t.action EXCEPT ![w.l] = w.a]
                ELSE t.action,
     output |-> IF w.f = "output" THEN [t.output EXCEPT ![w.l] = w.o]
                ELSE t.output]
\* the tree as it is
Tree == [tick |-> tick, total |-> total, action |-> action, output |-> output]

Write ==
    /\ wq # << >>
    /\ LET w == Head(wq)
           t == WriteTree(Tree, w)
       IN
        /\ tick' = t.tick
        /\ total' = t.total
        /\ action' = t.action
        /\ output' = t.output
        /\ error' = IF w.f = "error" THEN TRUE ELSE error
    /\ wq' = Tail(wq)
    /\ UNCHANGED << busy, config, is_shutdown, observers, pc, recheck_period,
                    locals, exc, fs, h >>

\* a control step of the worker runs when the writes before it are done
At(label) == pc = label /\ wq = << >>

\* an exception leaves the try block of start()
Raise(e, cause) ==
    /\ pc' = "except"
    /\ exc' = e
    /\ h' = [h EXCEPT !.fault = cause,
                      !.failure = (@ \/ cause # "remove")]
    /\ UNCHANGED << tree, busy, error, config, is_shutdown, observers, wq,
                    recheck_period, locals, fs >>

\* ------------------------------------------------------- CodeLoader.start
\* lines 74-81: start the status readers, recheck_period = RECHECK_PERIOD_SEC
Start ==
    /\ At("start")
    /\ rest_api' = IF ENABLE_REST_API THEN "started" ELSE rest_api
    /\ callbacks' = IF ENABLE_PRINTER \/ ENABLE_REST_API THEN "registered"
                    ELSE callbacks
    /\ printer_is_shutdown' = printer_is_shutdown
    /\ snap' = snap
    /\ recheck_period' = RECHECK_PERIOD_SEC
    /\ pc' = "while"
    /\ UNCHANGED << tree, busy, error, config, is_shutdown, wq, locals, exc,
                    fs, h >>

\* line 82: while not self.is_shutdown
WhileTest ==
    /\ At("while")
    /\ IF is_shutdown
       THEN pc' = "stop_readers" /\ h' = h
       ELSE /\ pc' = "load_configuration"
            /\ h' = NewCycle(h)
    /\ UNCHANGED << tree, busy, error, config, is_shutdown, observers, wq,
                    recheck_period, locals, exc, fs >>

\* CodeLoaderRESTAPI.stop: httpd.shutdown() ends serve_forever; while httpd
\* is None (run() has not made the server yet) the call raises
\* AttributeError, which the bare except swallows.  httpd.socket.shutdown()
\* lacks its argument and raises TypeError, swallowed as well.
stop(r) == IF r = "serving" THEN "stopped" ELSE r
\* httpd.shutdown() returns when serve_forever has left its loop, that is
\* when the request in hand is answered
CanStop == rest_api = "serving" => snap.pc = "idle"

\* lines 99-100: stop the status readers
StopReaders ==
    /\ At("stop_readers")
    /\ CanStop
    /\ printer_is_shutdown' = TRUE
    /\ rest_api' = stop(rest_api)
    /\ pc' = "returned"
    /\ UNCHANGED << tree, busy, error, config, is_shutdown, callbacks, snap,
                    wq, recheck_period, locals, exc, fs, h >>

\* str.join raises TypeError when an item of the sequence is not a str
JoinRaises(items) == \E i \in DOMAIN items : items[i] # "str"
\* the types of the items of sys.exc_info(): (type, value, traceback)
exc_info == << "type", "BaseException", "traceback" >>

\* lines 87-92: the except block.  Line 88 evaluates '\n'.join(sys.exc_info())
\* first; a TypeError raised there leaves the block before lines 89-92.
Except ==
    /\ At("except")
    /\ IF JoinRaises(exc_info)
       THEN /\ exc' = "TypeError"
            /\ wq' = wq
            /\ recheck_period' = recheck_period
       ELSE /\ exc' = "none"
            /\ wq' = ErrorWrites(0, exc)
            /\ recheck_period' = RECHECK_PERIOD_ON_ERROR_SEC
    /\ pc' = "finally"
    /\ UNCHANGED << tree, busy, error, config, is_shutdown, observers,
                    locals, fs, h >>

\* lines 93-95: finally: printer.stop(), then time.sleep(recheck_period) begins
Finally ==
    /\ At("finally")
    /\ printer_is_shutdown' = TRUE
    /\ pc' = "sleep"
    /\ UNCHANGED << tree, busy, error, config, is_shutdown, callbacks,
                    rest_api, snap, wq, recheck_period, locals, exc, fs, h >>

\* lines 95-97: the sleep returns; an exception still pending leaves start(),
\* otherwise the loop goes round
Sleep ==
    /\ At("sleep")
    /\ printer_is_shutdown' = IF ENABLE_PRINTER THEN FALSE ELSE printer_is_shutdown
    /\ pc' = IF exc # "none" THEN "raised" ELSE "while"
    /\ UNCHANGED << tree, busy, error, config, is_shutdown, callbacks,
                    rest_api, snap, wq, recheck_period, locals, exc, fs, h >>

\* DTProcess: a termination signal sets is_shutdown; the callbacks
\* registered by then (lines 76, 79) are to be called
Shutdown ==
    /\ ~is_shutdown
    /\ pc \notin {"returned", "raised"}
    /\ is_shutdown' = TRUE
    /\ callbacks' = IF callbacks = "registered" THEN "pending" ELSE callbacks
    /\ UNCHANGED << tree, busy, error, config, printer_is_shutdown, rest_api,
                    snap, pc, wq, recheck_period, locals, exc, fs, h >>

\* ------------------------------------------- CodeLoader._load_configuration
_load_configuration ==
    /\ At("load_configuration")
    /\ images_to_load_tar' = glob(fs, "tar")
    /\ images_to_load_tar_gz' = glob(fs, "targz")
    /\ stacks_to_load_yaml' = glob(fs, "load")
    /\ stacks_to_run_yaml' = glob(fs, "run")
    /\ pc' = "run"
    /\ UNCHANGED << tree, busy, error, do_delete, is_shutdown, observers, wq,
                    recheck_period, locals, exc, fs, h >>

\* ------------------------------------------------------- CodeLoader._run
RECURSIVE SumImages(_)
SumImages(stacks) ==
    IF stacks = << >> THEN 0
    ELSE Cardinality(_images_in_stack(Head(stacks))) + SumImages(Tail(stacks))

\* the sum of lines 164-168 with every service entry counted, duplicates too
num_images_no_dedup ==
    LET RECURSIVE Entries(_)
        Entries(stacks) ==
            IF stacks = << >> THEN 0
            ELSE Len(ServiceImages(Head(stacks))) + Entries(Tail(stacks))
    IN  Len(images_to_load_tar) + Len(images_to_load_tar_gz)
        + Entries(stacks_to_load_yaml) + Entries(stacks_to_run_yaml)

\* lines 164-168
num_images ==
    Len(images_to_load_tar) + Len(images_to_load_tar_gz)
    + SumImages(stacks_to_load_yaml) + SumImages(stacks_to_run_yaml)

\* lines 152-175: busy, the level-0 total and status, the first phase
RunBegin ==
    /\ At("run")
    /\ busy' = TRUE
    /\ wq' = _set_total(0, num_images)
             \o _set_status(0, Action("Loading Docker images", NoItem))
             \o _set_total(1, Len(images_to_load_tar))
             \o _set_status(1, Action("Loading uncrompressed images (.tar)", NoItem))
    /\ phase' = 1
    /\ idx' = 1
    /\ pc' = "archives"
    /\ UNCHANGED << tree, error, config, is_shutdown, observers,
                    recheck_period, todo, image, bytes_transferred, layers,
                    nlines, exc, fs, h >>

\* the two archive loops with their lists exchanged
Archives_gz_first ==
    IF phase = 1 THEN images_to_load_tar_gz ELSE images_to_load_tar

\* the list the archive loop of lines 176 / 187 runs over
Archives == IF phase = 1 THEN images_to_load_tar ELSE images_to_load_tar_gz

\* lines 176-177 / 187-188, 275-277: the next archive; _docker_load_archive
\* sets the status and the total of level 2
ArchiveNext ==
    /\ At("archives")
    /\ idx <= Len(Archives)
    /\ wq' = _set_status(2, Action("Loading archive", Archives[idx]))
             \o _set_total(2, st_size(Archives[idx]))
    /\ pc' = "load_popen"
    /\ UNCHANGED << tree, busy, error, config, is_shutdown, observers,
                    recheck_period, locals, exc, fs, h >>

\* lines 184-186, 195-197: the archive list is done; the next phase begins
ArchivesEnd ==
    /\ At("archives")
    /\ idx > Len(Archives)
    /\ IF phase = 1
       THEN /\ wq' = _set_total(1, Len(images_to_load_tar_gz))
                     \o _set_status(1, Action("Loading crompressed images (.tar.gz)", NoItem))
            /\ phase' = 2
            /\ pc' = "archives"
       ELSE /\ wq' = _set_total(1, Len(stacks_to_run_yaml))
                     \o _set_status(1, Action("Loading stacks we run at boot", NoItem))
            /\ phase' = 3
            /\ pc' = "stacks_run"
    /\ idx' = 1
    /\ UNCHANGED << tree, busy, error, config, is_shutdown, observers,
                    recheck_period, todo, image, bytes_transferred, layers,
                    nlines, exc, fs, h >>

\* lines 278-282: Popen(['docker', 'load']), the file is opened
LoadPopen ==
    /\ At("load_popen")
    /\ bytes_transferred' = 0
    /\ pc' = "load_stream"
    /\ h' = [h EXCEPT !.itemOK = FALSE,
                      !.call = Call("load", Archives[idx], NoItem),
                      !.inflight = @ + 1]
    /\ UNCHANGED << tree, busy, error, config, is_shutdown, observers, wq,
                    recheck_period, phase, idx, todo, image, layers, nlines,
                    exc, fs >>

\* Popen fails (no docker executable)
LoadPopenRaises ==
    /\ At("load_popen")
    /\ Raise("OSError", "load")

\* fin.read(buffer): the length of the next chunk
NextChunk(f, sent) == Min(buffer, st_size(f) - sent)

\* lines 283-290: one chunk goes to docker load, the tick of level 2 follows
LoadChunk ==
    /\ At("load_stream")
    /\ NextChunk(Archives[idx], bytes_transferred) # 0
    /\ ~is_shutdown
    /\ bytes_transferred' =
           bytes_transferred + NextChunk(Archives[idx], bytes_transferred)
    /\ wq' = _set_tick(2, bytes_transferred')
    /\ UNCHANGED << tree, busy, error, config, is_shutdown, observers, pc,
                    recheck_period, phase, idx, todo, image, layers, nlines,
                    exc, fs, h >>

\* lines 283, 291-292: the loop ends (end of file, or shutdown);
\* communicate() waits for docker load, whose exit status rc is not read
LoadCommunicate ==
    /\ At("load_stream")
    /\ NextChunk(Archives[idx], bytes_transferred) = 0 \/ is_shutdown
    /\ \E rc \in {0, 1} :
        /\ h' = [h EXCEPT
                   !.failure = (@ \/ rc # 0),
                   !.itemOK = (rc = 0 /\
                               bytes_transferred = st_size(Archives[idx])),
                   !.inflight = @ - 1]
    /\ wq' = SetOutput(2, "out")
    /\ pc' = "archive_done"
    /\ UNCHANGED << tree, busy, error, config, is_shutdown, observers,
                    recheck_period, locals, exc, fs >>

\* remove_file(filepath): os.remove
remove_file(files, f) == files \ {f}

\* lines 178-182 / 189-193: the archive is removed, levels 1 and 0 tick
ArchiveDone ==
    /\ At("archive_done")
    /\ fs' = IF do_delete THEN remove_file(fs, Archives[idx]) ELSE fs
    /\ h' = [h EXCEPT !.units = @ + 1]
    /\ wq' = _tick(1) \o _tick(0)
    /\ idx' = idx + 1
    /\ pc' = "archives"
    /\ UNCHANGED << tree, busy, error, config, is_shutdown, observers,
                    recheck_period, phase, todo, image, bytes_transferred,
                    layers, nlines, exc >>

\* os.remove raises (line 179 / 190): nothing in _run catches it
ArchiveRemoveRaises ==
    /\ At("archive_done")
    /\ do_delete
    /\ Raise("OSError", "remove")

\* ---------------------------------------------- stacks to run (lines 195-212)
\* the manifest in hand: `stack` of the loop of line 198 / line 217
Manifest ==
    IF phase = 3 THEN stacks_to_run_yaml[idx] ELSE stacks_to_load_yaml[idx]

\* lines 198-201: the next manifest; total and status of level 2
RunStackNext ==
    /\ At("stacks_run")
    /\ idx <= Len(stacks_to_run_yaml)
    /\ wq' = _set_total(2, 1 + Cardinality(_images_in_stack(stacks_to_run_yaml[idx])))
             \o _set_status(2, Action("Loading stack", stacks_to_run_yaml[idx]))
    /\ todo' = _images_in_stack(stacks_to_run_yaml[idx])
    /\ pc' = "run_images"
    /\ h' = [h EXCEPT !.checked = {}, !.missing = {}, !.pulled = {},
                      !.ups = 0]
    /\ UNCHANGED << tree, busy, error, config, is_shutdown, observers,
                    recheck_period, phase, idx, image, bytes_transferred,
                    layers, nlines, exc, fs >>

\* lines 214-216: the manifests to run are done; the last phase begins
RunStacksEnd ==
    /\ At("stacks_run")
    /\ idx > Len(stacks_to_run_yaml)
    /\ wq' = _set_total(1, Len(stacks_to_load_yaml))
             \o _set_status(1, Action("Loading other stacks", NoItem))
    /\ phase' = 4
    /\ idx' = 1
    /\ pc' = "stacks_load"
    /\ UNCHANGED << tree, busy, error, config, is_shutdown, observers,
                    recheck_period, todo, image, bytes_transferred, layers,
                    nlines, exc, fs, h >>

\* lines 202-207, 294-298: the next image of the manifest (a set: any order);
\* _docker_image_exists answers; a present image ticks levels 2 and 0
RunImageExists ==
    /\ At("run_images")
    /\ \E img \in todo, present \in BOOLEAN :
        /\ todo' = todo \ {img}
        /\ image' = img
        /\ IF present
           THEN /\ wq' = _tick(2) \o _tick(0)
                /\ pc' = "run_images"
                /\ h' = [h EXCEPT !.units = @ + 1,
                                  !.call = Call("exists", Manifest, img),
                                  !.checked = @ \cup {img}]
           ELSE /\ wq' = wq
                /\ pc' = "pull"
                /\ h' = [h EXCEPT !.call = Call("exists", Manifest, img),
                                  !.checked = @ \cup {img},
                                  !.missing = @ \cup {img}]
    /\ UNCHANGED << tree, busy, error, config, is_shutdown, observers,
                    recheck_period, phase, idx, bytes_transferred, layers,
                    nlines, exc, fs >>

\* check_output(['docker', 'images', ..]) raises CalledProcessError
RunImageExistsRaises ==
    /\ At("run_images")
    /\ todo # {}
    /\ Raise("CalledProcessError", "exists")

\* lines 208-209, 324-326: every image is done and the stack is not excluded:
\* _docker_run_stack sets the status and the total of level 3
RunStackBegin ==
    /\ At("run_images")
    /\ todo = {}
    /\ ~InExcludeRun(lower(stack_name(stacks_to_run_yaml[idx])))
    /\ wq' = _set_status(3, Action("Running stack", stacks_to_run_yaml[idx]))
             \o _set_total(3, 1)
    /\ pc' = "compose_up"
    /\ UNCHANGED << tree, busy, error, config, is_shutdown, observers,
                    recheck_period, locals, exc, fs, h >>

\* lines 208, 211-212: the stack is excluded: only level 1 ticks
RunStackExcluded ==
    /\ At("run_images")
    /\ todo = {}
    /\ InExcludeRun(lower(stack_name(stacks_to_run_yaml[idx])))
    /\ wq' = _tick(1)
    /\ idx' = idx + 1
    /\ pc' = "stacks_run"
    /\ UNCHANGED << tree, busy, error, config, is_shutdown, observers,
                    recheck_period, phase, todo, image, bytes_transferred,
                    layers, nlines, exc, fs, h >>

\* lines 327-331, 210-212: docker-compose up; its exit status rc is not read;
\* Popen(cmd) has no pipes, so communicate() returns err = None
ComposeUp ==
    /\ At("compose_up")
    /\ \E rc \in {0, 1} :
        /\ h' = [h EXCEPT !.failure = (@ \/ rc # 0),
                          !.call = Call("up", Manifest, NoItem),
                          !.ups = @ + 1]
    /\ wq' = SetOutput(3, OutNone) \o _tick(3) \o _tick(1)
    /\ idx' = idx + 1
    /\ pc' = "stacks_run"
    /\ UNCHANGED << tree, busy, error, config, is_shutdown, observers,
                    recheck_period, phase, todo, image, bytes_transferred,
                    layers, nlines, exc, fs >>

\* Popen fails (no docker-compose executable)
ComposeUpRaises ==
    /\ At("compose_up")
    /\ Raise("OSError", "up")

\* ------------------------------------- _docker_pull_image (lines 300-321)
\* line 301
PullBegin ==
    /\ At("pull")
    /\ wq' = _set_action(3, Action("Pulling image", image))
    /\ pc' = "pull_popen"
    /\ UNCHANGED << tree, busy, error, config, is_shutdown, observers,
                    recheck_period, locals, exc, fs, h >>

\* lines 302-306
PullPopen ==
    /\ At("pull_popen")
    /\ wq' = _set_total(3, 1) \o _set_tick(3, 0) \o SetOutput(3, OutEmpty)
    /\ layers' = {}
    /\ nlines' = 0
    /\ pc' = "pull_lines"
    /\ h' = [h EXCEPT !.call = Call("pull", Manifest, image),
                      !.inflight = @ + 1,
                      !.pulled = @ \cup {image}]
    /\ UNCHANGED << tree, busy, error, config, is_shutdown, observers,
                    recheck_period, phase, idx, todo, image,
                    bytes_transferred, exc, fs >>

\* Popen fails (no docker executable)
PullPopenRaises ==
    /\ At("pull_popen")
    /\ Raise("OSError", "pull")

\* The lines of docker pull, by what lines 310-321 make of them: a layer line
\* ('<12 chars>: Waiting' or ': Pulling fs layer') of layer 1 or 2, a
\* completion line (': Download complete', ': Pull complete'), any other line
PullLines == { <<"layer", 1>>, <<"layer", 2>>, <<"complete", 0>>, <<"other", 0>> }

\* lines 307-321: one line of the pull
PullLine ==
    /\ At("pull_lines")
    /\ nlines < MaxLines
    /\ \E line \in PullLines :
        /\ layers' = IF line[1] = "layer" THEN layers \cup {line[2]} ELSE layers
        /\ wq' = SetOutput(3, "lines")
                 \o (IF line[1] = "layer"
                     THEN _set_total(3, 2 * Cardinality(layers'))
                     ELSE IF line[1] = "complete" THEN _tick(3) ELSE << >>)
    /\ nlines' = nlines + 1
    /\ UNCHANGED << tree, busy, error, config, is_shutdown, observers, pc,
                    recheck_period, phase, idx, todo, image,
                    bytes_transferred, exc, fs, h >>

\* line 307 ends: docker pull closed its output; its exit status rc is never
\* read.  Then lines 205-207 / 223-225: levels 2 and 0 tick
PullEnd ==
    /\ At("pull_lines")
    /\ \E rc \in {0, 1} :
        /\ h' = [h EXCEPT !.failure = (@ \/ rc # 0),
                          !.itemOK = (@ /\ rc = 0),
                          !.units = @ + 1,
                          !.inflight = @ - 1]
    /\ wq' = _tick(2) \o _tick(0)
    /\ nlines' = 0
    /\ layers' = {}
    /\ pc' = IF phase = 3 THEN "run_images" ELSE "load_images"
    /\ UNCHANGED << tree, busy, error, config, is_shutdown, observers,
                    recheck_period, phase, idx, todo, image,
                    bytes_transferred, exc, fs >>

\* --------------------------------------------- stacks to load (lines 214-233)
\* lines 217-220
LoadStackNext ==
    /\ At("stacks_load")
    /\ idx <= Len(stacks_to_load_yaml)
    /\ wq' = _set_total(2, Cardinality(_images_in_stack(stacks_to_load_yaml[idx])))
             \o _set_status(2, Action("Loading stack", stacks_to_load_yaml[idx]))
    /\ todo' = _images_in_stack(stacks_to_load_yaml[idx])
    /\ pc' = "load_images"
    /\ h' = [h EXCEPT !.itemOK = TRUE, !.checked = {}, !.missing = {},
                      !.pulled = {}, !.ups = 0]
    /\ UNCHANGED << tree, busy, error, config, is_shutdown, observers,
                    recheck_period, phase, idx, image, bytes_transferred,
                    layers, nlines, exc, fs >>

\* lines 221-222: the next image of the manifest is pulled
LoadImage ==
    /\ At("load_images")
    /\ \E img \in todo :
        /\ todo' = todo \ {img}
        /\ image' = img
    /\ pc' = "pull"
    /\ UNCHANGED << tree, busy, error, config, is_shutdown, observers, wq,
                    recheck_period, phase, idx, bytes_transferred, layers,
                    nlines, exc, fs, h >>

\* lines 226-229: the manifest is removed, level 1 ticks
LoadStackDone ==
    /\ At("load_images")
    /\ todo = {}
    /\ fs' = IF do_delete THEN remove_file(fs, stacks_to_load_yaml[idx]) ELSE fs
    /\ h' = h
    /\ wq' = _tick(1)
    /\ idx' = idx + 1
    /\ pc' = "stacks_load"
    /\ UNCHANGED << tree, busy, error, config, is_shutdown, observers,
                    recheck_period, phase, todo, image, bytes_transferred,
                    layers, nlines, exc >>

\* os.remove raises (line 227)
LoadStackRemoveRaises ==
    /\ At("load_images")
    /\ todo = {}
    /\ do_delete
    /\ Raise("OSError", "remove")

\* lines 230-233, 86: every phase is done: busy = False, disable_service
RunEnd ==
    /\ At("stacks_load")
    /\ idx > Len(stacks_to_load_yaml)
    /\ busy' = FALSE
    /\ pc' = "finally"
    /\ UNCHANGED << tree, error, config, is_shutdown, observers, wq,
                    recheck_period, locals, exc, fs, h >>

\* ------------------------------------------------------------------ Next
Next ==
    \/ Write
    \/ Start \/ WhileTest \/ StopReaders \/ Except \/ Finally \/ Sleep
    \/ Shutdown
    \/ _load_configuration
    \/ RunBegin
    \/ ArchiveNext \/ ArchivesEnd \/ LoadPopen \/ LoadPopenRaises
    \/ LoadChunk \/ LoadCommunicate \/ ArchiveDone \/ ArchiveRemoveRaises
    \/ RunStackNext \/ RunStacksEnd \/ RunImageExists \/ RunImageExistsRaises
    \/ RunStackBegin \/ RunStackExcluded \/ ComposeUp \/ ComposeUpRaises
    \/ PullBegin \/ PullPopen \/ PullPopenRaises \/ PullLine \/ PullEnd
    \/ LoadStackNext \/ LoadImage \/ LoadStackDone \/ LoadStackRemoveRaises
    \/ RunEnd

Spec == Init /\ [][Next]_vars

\* =================================== the process with its status readers
\* CodeLoaderRESTAPI.run, lines 16-19: the thread makes the server and serves
RestRun ==
    /\ rest_api = "started"
    /\ rest_api' = "serving"
    /\ UNCHANGED << tree, busy, error, config, is_shutdown, callbacks,
                    printer_is_shutdown, snap, pc, wq, recheck_period, locals,
                    exc, fs, h >>

\* DTProcess: after is_shutdown is set the registered callbacks are called
\* (lines 76, 79: printer.stop, rest_api.stop)
ShutdownCallbacks ==
    /\ is_shutdown
    /\ callbacks = "pending"
    /\ CanStop
    /\ callbacks' = "called"
    /\ printer_is_shutdown' = IF ENABLE_PRINTER THEN TRUE ELSE printer_is_shutdown
    /\ rest_api' = IF ENABLE_REST_API THEN stop(rest_api) ELSE rest_api
    /\ UNCHANGED << tree, busy, error, config, is_shutdown, snap, pc, wq,
                    recheck_period, locals, exc, fs, h >>

\* the threads that call get_status: the request handler of the serving REST
\* thread (the server answers one request at a time), the printer thread
\* (started at line 75 under ENABLE_PRINTER only)
Readers ==
    (IF rest_api = "serving" THEN {"rest"} ELSE {})
    \cup (IF ENABLE_PRINTER /\ pc # "start" /\ ~printer_is_shutdown
          THEN {"printer"} ELSE {})

\* get_status, line 108: progress = self._get_progress()
GetStatusProgress ==
    /\ snap.pc = "idle"
    /\ \E who \in Readers :
        snap' = [NoSnapshot EXCEPT !.pc = "status", !.who = who,
                                   !.progress = _get_progress]
    /\ UNCHANGED << tree, busy, error, config, is_shutdown, callbacks,
                    printer_is_shutdown, rest_api, pc, wq, recheck_period,
                    locals, exc, fs, h >>

\* the entry of level lvl in the dict of lines 109-120
LevelEntry(lvl) ==
    [progress |-> snap.progress[lvl], current |-> tick[lvl],
     total |-> total[lvl], action |-> action[lvl], output |-> output[lvl]]

\* get_status, lines 109-131: the dict is built from the flags and from
\* tick, total, action and output as they are now (taken here in one step;
\* the code reads them one after the other)
GetStatusDict ==
    /\ snap.pc = "status"
    /\ snap' = [snap EXCEPT !.pc = "got", !.status = status,
                            !.lv = [i \in 1 .. max_level |-> LevelEntry(i - 1)]]
    /\ UNCHANGED << tree, busy, error, config, is_shutdown, callbacks,
                    printer_is_shutdown, rest_api, pc, wq, recheck_period,
                    locals, exc, fs, h >>

\* do_GET, lines 44-46: code_loader_status['progress'][lvl]['output'] = None
SuppressOutput(lv) == [i \in DOMAIN lv |-> [lv[i] EXCEPT !.output = OutNone]]

\* the entries of the dict are assigned to as if they were self.output
OutputAfterAnswer_shared(out) == [lvl \in Levels |-> OutNone]
\* self.output after the caller changed the dict it got: get_status builds
\* the dict and its entries anew (lines 109-131), so self.output is as before
OutputAfterAnswer(out) == out

\* do_GET, lines 43-48, or the printer, line 17: the caller has the dict
\* and writes it out
Answer ==
    /\ snap.pc = "got"
    /\ snap' = [snap EXCEPT
                  !.pc = "sent",
                  !.lv = IF snap.who = "rest" /\ ~INCLUDE_OUTPUT
                         THEN SuppressOutput(@) ELSE @]
    /\ output' = IF snap.who = "rest" /\ ~INCLUDE_OUTPUT
                  THEN OutputAfterAnswer(output) ELSE output
    /\ UNCHANGED << total, tick, action, busy, error, config, is_shutdown,
                    callbacks, printer_is_shutdown, rest_api, pc, wq,
                    recheck_period, locals, exc, fs, h >>

\* the caller is done with the dict
AnswerDone ==
    /\ snap.pc = "sent"
    /\ snap' = NoSnapshot
    /\ UNCHANGED << tree, busy, error, config, is_shutdown, callbacks,
                    printer_is_shutdown, rest_api, pc, wq, recheck_period,
                    locals, exc, fs, h >>

\* A get_status call is short against the control steps of the worker (each
\* is a subprocess call or file I/O): while a call is in hand the worker
\* does the tree writes it has pending and no further control step.
WorkerStep == Next /\ (wq # << >> \/ snap.pc = "idle")

\* the staged files of the runs with readers: at most MaxSysFiles
SysInit == Init /\ Cardinality(fs) <= MaxSysFiles

SysNext ==
    \/ WorkerStep
    \/ RestRun \/ ShutdownCallbacks
    \/ GetStatusProgress \/ GetStatusDict \/ Answer \/ AnswerDone

SysSpec == SysInit /\ [][SysNext]_vars

\* ============================ the functions of the tree, on any tree
\* the tree after the writes ws, in order
RECURSIVE WriteAll(_, _)
WriteAll(t, ws) ==
    IF ws = << >> THEN t ELSE WriteAll(WriteTree(t, Head(ws)), Tail(ws))

OldAction == Action("Loading stack", RunFile(1))
NewAction == Action("Loading archive", TarFile(1))

\* a CodeLoader with any tree: "tree:_set_action" is called with trees of
\* any ticks and actions, "tree:_get_progress" with any ticks and totals
TreeInit ==
    /\ pc \in {"tree:_set_action", "tree:_get_progress"}
    /\ tick \in [Levels -> 0 .. MaxTick]
    /\ IF pc = "tree:_set_action"
       THEN /\ total \in {[l \in Levels |-> 1], [l \in Levels |-> MaxTick]}
            /\ action \in [Levels -> {None, OldAction}]
            /\ output \in {[l \in Levels |-> OutNone], [l \in Levels |-> "out"]}
       ELSE /\ total \in [Levels -> 0 .. MaxTick]
            /\ action = [l \in Levels |-> None]
            /\ output = [l \in Levels |-> OutNone]
    /\ busy = TRUE
    /\ error = FALSE
    /\ images_to_load_tar = << >>
    /\ images_to_load_tar_gz = << >>
    /\ stacks_to_load_yaml = << >>
    /\ stacks_to_run_yaml = << >>
    /\ do_delete = FALSE
    /\ is_shutdown = FALSE
    /\ callbacks = "none"
    /\ printer_is_shutdown = FALSE
    /\ rest_api = "new"
    /\ snap = NoSnapshot
    /\ wq = << >>
    /\ recheck_period = 0
    /\ phase = 0
    /\ idx = 0
    /\ todo = {}
    /\ image = NoItem
    /\ bytes_transferred = 0
    /\ layers = {}
    /\ nlines = 0
    /\ exc = "none"
    /\ fs = {}
    /\ h = [op |-> "none", lvl |-> 0, a |-> None]

\* one call of a tree function, all its writes done
TreeCall(ws) ==
    LET t == WriteAll(Tree, ws) IN
    /\ tick' = t.tick
    /\ total' = t.total
    /\ action' = t.action
    /\ output' = t.output
    /\ UNCHANGED << busy, error, config, is_shutdown, observers, pc, wq,
                    recheck_period, locals, exc, fs >>

\* self._set_action(lvl, a); h keeps the arguments
SetActionCall ==
    /\ pc = "tree:_set_action"
    /\ \E lvl \in Levels, a \in {None, NewAction} :
        /\ TreeCall(_set_action(lvl, a))
        /\ h' = [op |-> "_set_action", lvl |-> lvl, a |-> a]

\* self._set_tick(lvl, n): the tick of one level changes, the totals stay
SetTickCall ==
    /\ pc = "tree:_get_progress"
    /\ \E lvl \in Levels, n \in 0 .. MaxTick :
        /\ TreeCall(_set_tick(lvl, n))
        /\ h' = [op |-> "_set_tick", lvl |-> 0, a |-> None]

TreeNext == SetActionCall \/ SetTickCall

TreeSpec == TreeInit /\ [][TreeNext]_vars

\* ======================================================== the properties
\* the cycle in hand was ended by an exception / ran to its end
CycleFailed == h.fault # "none"
CycleSucceeded == pc \in {"finally", "sleep"} /\ exc = "none" /\ wq = << >>
\* the worker is past the except block of a failed cycle
AfterHandler == CycleFailed /\ pc \in {"sleep", "raised"}

\* C1: when _load_configuration or _run raises, start() leaves an error
\* descriptor in the action of every level and sets the error flag, so that
\* get_status reports 'error' from the handler on.
C1_ErrorSurfaced ==
    AfterHandler =>
        /\ status = "error"
        /\ \A lvl \in Levels : IsErrorAction(action[lvl])

\* C2: a failed cycle never makes the loop of start() exit: the worker leaves
\* the loop only when a shutdown was requested.
C2_LoopLeftOnlyOnShutdown ==
    pc \in {"stop_readers", "returned", "raised"} => is_shutdown

\* C4: no per-item recovery: once a collaborator call of the cycle failed or
\* returned failure, nothing more is processed in that cycle: no file is
\* removed, levels 0..2 do not tick, and the worker only moves on to the
\* error handling of start().
C4_NoPerItemRecovery ==
    [][ h.failure =>
          /\ fs' = fs
          /\ \A lvl \in 0 .. 2 : tick'[lvl] <= tick[lvl]
          /\ pc' = pc \/ pc' \in {"except", "finally", "sleep", "raised", "while"}
      ]_vars

\* C5: a file is removed only under the delete policy and only after its item
\* was processed completely and successfully (the archive streamed to its end
\* and loaded, every image of the manifest pulled).
C5_RemoveOnlyAfterSuccess ==
    [][ fs' # fs => (do_delete /\ h.itemOK) ]_vars

\* C6: a failing removal of an archive or manifest never aborts the cycle.
C6_RemovalFailureNotFatal ==
    ~(h.fault = "remove" /\ pc \in {"except", "finally", "sleep", "raised"})

\* C7: in every state of the progress tree the percentage of every level is
\* within 0..100.
C7_PercentInRange ==
    \A lvl \in Levels : _get_progress[lvl] >= 0 /\ _get_progress[lvl] <= 100

\* C8: at the end of a successful cycle (one that had work to do) get_status
\* reports 100 percent at level 0 and the state 'ready'.
C8_SuccessIsHundredAndReady ==
    (CycleSucceeded /\ total[0] > 0) =>
        (_get_progress[0] = 100 /\ status = "ready")

\* the number of different images among the service entries of a manifest:
\* the entries that no earlier entry of the manifest repeats
UniqueImages(f) ==
    Cardinality({ i \in DOMAIN ServiceImages(f) :
                    \A j \in 1 .. (i - 1) : ServiceImages(f)[j] # ServiceImages(f)[i] })
RECURSIVE SumUnique(_)
SumUnique(stacks) ==
    IF stacks = << >> THEN 0 ELSE UniqueImages(Head(stacks)) + SumUnique(Tail(stacks))
\* what the level-0 total has to be for the configuration in hand
RootTotal ==
    Len(images_to_load_tar) + Len(images_to_load_tar_gz)
    + SumUnique(stacks_to_run_yaml) + SumUnique(stacks_to_load_yaml)

\* the writes of kind f to level lvl that are still to be done
Pending(f, lvl) ==
    Cardinality({ i \in DOMAIN wq : wq[i].f = f /\ wq[i].l = lvl })
\* _run has written the level-0 total and reset the level-0 tick
AfterRootReset ==
    /\ pc \notin {"start", "while", "load_configuration", "run",
                  "stop_readers", "returned"}
    /\ Pending("total", 0) = 0
    /\ Pending("tick", 0) = 0

\* C9: from the level-0 reset of a cycle to its end, total[0] is the number of
\* archives plus the unique images of every manifest, tick[0] counts each
\* loaded archive and each processed image once, tick[0] <= total[0], and
\* tick[0] = total[0] when the cycle succeeded.
C9_RootTotalAndTick ==
    AfterRootReset =>
        /\ total[0] = RootTotal
        /\ tick[0] + Pending("inc", 0) = h.units
        /\ tick[0] <= total[0]
        /\ CycleSucceeded => tick[0] = total[0]

\* a successful cycle over one archive, a manifest with two images and a
\* manifest that names one image twice: four units
C9_Witness ==
    /\ CycleSucceeded
    /\ Len(images_to_load_tar) = 1
    /\ Len(stacks_to_run_yaml) = 2
    /\ tick[0] = 4

CallPhase(c) ==
    IF c.kind = "load" /\ c.file[1] = "tar" THEN 1
    ELSE IF c.kind = "load" /\ c.file[1] = "targz" THEN 2
    ELSE IF c.kind \in {"exists", "pull", "up"} /\ c.file[1] = "run" THEN 3
    ELSE IF c.kind = "pull" /\ c.file[1] = "load" THEN 4
    ELSE 0
CallPlace(c) == << CallPhase(c), c.file[2], IF c.kind = "up" THEN 2 ELSE 1 >>
\* p is not after q
NotAfter(p, q) ==
    \/ p[1] < q[1]
    \/ p[1] = q[1] /\ p[2] < q[2]
    \/ p[1] = q[1] /\ p[2] = q[2] /\ p[3] <= q[3]

\* C11: within a cycle the collaborator calls follow the phase order (.tar
\* loads, .tar.gz loads, the manifests to run one by one, each with its image
\* checks and pulls before its bring-up, then the pulls of the manifests to
\* load): no call is started after a call of a later place, and a call is
\* started only when no other call is in flight.
C11_CallsInPhaseOrder ==
    [][ (h'.call # h.call /\ h'.call # NoCall) =>
          /\ CallPhase(h'.call) # 0
          /\ h.inflight = 0
          /\ h'.inflight <= 1
          /\ h.call # NoCall => NotAfter(CallPlace(h.call), CallPlace(h'.call))
      ]_vars

\* a .tar load, a .tar.gz load and the bring-up of a manifest, in one cycle
C11_Witness ==
    /\ h.call.kind = "up"
    /\ Len(images_to_load_tar) = 1
    /\ Len(images_to_load_tar_gz) = 1
    /\ tick[0] >= 2

\* the manifests the environment excludes from running: EXCLUDE_RUN names the
\* even-numbered stacks
ExcludedStack(f) == f[2] % 2 = 0
\* the worker is between two manifests of the run phase, the writes done
BetweenRunStacks == phase = 3 /\ pc = "stacks_run" /\ wq = << >> /\ idx > 1

\* C12: for every manifest of the run phase, excluded or not, the images
\* pulled are exactly the images docker images did not find, level 2 ticks
\* once per image, level 1 once per manifest and level 0 once per image;
\* docker-compose up is never called for an excluded manifest, and exactly
\* once, with every image checked and every missing image pulled, for any
\* other.
C12_ExcludedStackNotRun ==
    /\ pc = "compose_up" =>
          /\ ~ExcludedStack(Manifest)
          /\ h.ups = 0
          /\ h.checked = _images_in_stack(Manifest)
          /\ h.pulled = h.missing
    /\ BetweenRunStacks =>
          LET f == stacks_to_run_yaml[idx - 1] IN
          /\ h.checked = _images_in_stack(f)
          /\ h.pulled = h.missing
          /\ tick[2] = Cardinality(_images_in_stack(f))
          /\ tick[1] = idx - 1
          /\ tick[0] = h.units
          /\ h.ups = IF ExcludedStack(f) THEN 0 ELSE 1

\* the second manifest, excluded, is done: its image was missing and pulled
C12_Witness ==
    /\ BetweenRunStacks
    /\ idx = 3
    /\ h.pulled # {}
    /\ h.ups = 0

\* the ticks and totals a snapshot reports
SnapshotTick == [lvl \in Levels |-> snap.lv[lvl + 1].current]
SnapshotTotal == [lvl \in Levels |-> snap.lv[lvl + 1].total]

\* C13: every snapshot get_status returns while the worker writes the tree is
\* coherent with one moment: the percentage it reports for a level is the
\* roll-up of the ticks and totals it reports (and tick, action and output of
\* a level are of one operation; the formula takes the part of the claim
\* that is a function of the snapshot alone).
C13_SnapshotCoherent ==
    snap.pc \in {"got", "sent"} =>
        \A lvl \in Levels :
            snap.lv[lvl + 1].progress
                = ProgressAt(SnapshotTick, SnapshotTotal, lvl)

\* C14: a get_status call, by the printer or by the GET handler, the handler's
\* blanking of the output entries included, changes nothing of the worker:
\* tick, total, action and output of every level, busy and error stay.
C14_ReadersChangeNothing ==
    [][ snap' # snap =>
          UNCHANGED << total, tick, action, output, busy, error >> ]_vars

\* the GET handler has blanked the output entries of the dict it got, and
\* the output of level 2 is still what docker load printed
C14_Witness ==
    /\ snap.pc = "sent"
    /\ snap.who = "rest"
    /\ \A lvl \in Levels : snap.lv[lvl + 1].output = OutNone
    /\ output[2] = "out"

\* C15: _set_action(L, a) sets action[L] = a, sets action to None and tick to
\* 0 at every level k > L, and leaves action[k] for k < L, tick[k] for
\* k <= L, and the total and output of every level as they were.
C15_SetActionFrame ==
    [][ pc = "tree:_set_action" =>
          LET L == h'.lvl IN
          /\ h'.op = "_set_action"
          /\ action'[L] = h'.a
          /\ \A k \in Levels : k > L => (action'[k] = None /\ tick'[k] = 0)
          /\ \A k \in Levels : k < L => action'[k] = action[k]
          /\ \A k \in Levels : k <= L => tick'[k] = tick[k]
          /\ total' = total
          /\ output' = output
      ]_vars

\* _set_action(1, a) on a tree with ticks, actions and outputs at every
\* level: levels 2 and 3 are cleared, levels 0 and 1 keep their ticks
C15_Witness ==
    /\ pc = "tree:_set_action"
    /\ h.op = "_set_action" /\ h.lvl = 1 /\ h.a = NewAction
    /\ action = [l \in Levels |-> IF l = 0 THEN OldAction
                                  ELSE IF l = 1 THEN NewAction ELSE None]
    /\ tick = [l \in Levels |-> IF l <= 1 THEN MaxTick ELSE 0]
    /\ output = [l \in Levels |-> "out"]

\* C16: the roll-up is monotone: with the same totals, when no tick of the
\* levels k >= L is lower than before, the percentage of level L is not
\* lower than before.  (Checked over the changes of one tick; any two trees
\* with the same totals are joined by a chain of such changes that keeps the
\* premise for L.)
C16_ProgressMonotone ==
    [][ pc = "tree:_get_progress" =>
          \A L \in Levels :
              (total' = total /\ \A k \in L .. (max_level - 1) : tick[k] <= tick'[k])
                  => ProgressAt(tick, total, L) <= ProgressAt(tick', total', L)
      ]_vars

\* every level half done with totals of 2: 50, 75, 87 and 93 percent
C16_Witness ==
    /\ pc = "tree:_get_progress"
    /\ h.op = "_set_tick"
    /\ total = [l \in Levels |-> 2]
    /\ tick = [l \in Levels |-> 1]
    /\ _get_progress = [l \in Levels |-> IF l = 3 THEN 50 ELSE IF l = 2 THEN 75
                                         ELSE IF l = 1 THEN 87 ELSE 93]

\* start() is left and no shutdown callback is still to be called: nothing
\* that stops a reader is left to run
NothingLeftToStopReaders ==
    /\ is_shutdown
    /\ pc \in {"returned", "raised"}
    /\ callbacks # "pending"

\* C17: after a shutdown signal no further chunk goes to the load in hand,
\* the loop of start() is left, and both readers (printer, REST thread) get
\* stopped, however the shutdown falls against the start of the readers.
\* The formula takes what this says of a run that has come to its end: when
\* start() is left and the callbacks are done, no reader thread is running
\* or about to serve.
C17_ReadersStoppedAfterShutdown ==
    NothingLeftToStopReaders =>
        /\ rest_api \notin {"started", "serving"}
        /\ ENABLE_PRINTER => printer_is_shutdown

\* C18: within a cycle, from the reset of level 0 to the end of the cycle,
\* the percentage of level 0 never goes down from one state of the tree to
\* the next, item boundaries and phase changes included.
C18_RootPercentNeverDrops ==
    [][ (AfterRootReset /\ AfterRootReset') =>
          ProgressAt(tick', total', 0) >= ProgressAt(tick, total, 0) ]_vars

\* the step writes the action of a phase or item (not None) to level lvl
WritesNewAction(lvl) ==
    /\ wq # << >>
    /\ wq' = Tail(wq)
    /\ Head(wq).f = "action" /\ Head(wq).l = lvl /\ Head(wq).a # None

\* C19: no stale child status can be read: in every state, the states
\* between the single writes of _set_status and _set_action included, from
\* the write of the new action to level L on, every level k > L has action
\* None and tick 0 until the worker next writes level k.
C19_NoStaleChild ==
    [][ /\ \A L \in Levels :
              WritesNewAction(L) =>
                  \A k \in Levels : k > L => (action'[k] = None /\ tick'[k] = 0)
        /\ \A k \in Levels :
              (action'[k] # action[k] \/ tick'[k] # tick[k]) =>
                  (wq # << >> /\ wq' = Tail(wq) /\ Head(wq).l = k)
      ]_vars

\* the second manifest to run: level 2 holds its action, and level 3, which
\* held the status and the tick of the bring-up of the first, is cleared
C19_Witness ==
    /\ phase = 3 /\ idx = 2 /\ pc = "run_images" /\ wq = << >>
    /\ action[2] = Action("Loading stack", RunFile(2))
    /\ action[3] = None /\ tick[3] = 0
    /\ h.call = Call("up", RunFile(1), NoItem)

\* C20: tick[L] <= total[L] at levels 0, 1 and 2 in every state that can be
\* read: across phase changes, from item to item, and when a new cycle
\* begins after another.
C20_TickWithinTotal ==
    \A L \in 0 .. 2 : tick[L] <= total[L]

====
